---------------------------- MODULE Spec2Model ----------------------------
(***************************************************************************)
(* Model of Tools/scripts/generate_manifest.py: the directory walker, the  *)
(* record accumulator (add_firmware_data_from_dir) and the projector of    *)
(* ManifestGenerator.walk_directory.                                       *)
(*                                                                         *)
(* Python strings are modelled as sequences of one-character strings, so   *)
(* that sorting, splitting, prefix tests and the regular expressions are   *)
(* computed character by character as the interpreter computes them.       *)
(* Python dictionaries are modelled as insertion-ordered sequences of      *)
(* <<key, value>> pairs.  The file system is read once per directory, so   *)
(* its contents are chosen when the code lists or opens them.              *)
(* The "timestamp" attribute (os.path.getctime) is not modelled: it is     *)
(* never projected into the manifest.                                      *)
(***************************************************************************)
EXTENDS Integers, Sequences, FiniteSets, TLC

(***************************************************************************)
(* String literals                                                         *)
(***************************************************************************)
S_AntennaTracker == <<"A","n","t","e","n","n","a","T","r","a","c","k","e","r">>
S_Copter == <<"C","o","p","t","e","r">>
S_Plane == <<"P","l","a","n","e">>
S_Rover == <<"R","o","v","e","r">>
S_Sub == <<"S","u","b">>
S_beta == <<"b","e","t","a">>
S_latest == <<"l","a","t","e","s","t">>
S_stable == <<"s","t","a","b","l","e">>
S_stable_star == <<"s","t","a","b","l","e","-","*">>
S_dev == <<"d","e","v">>
S_stable_1_2_3 == <<"s","t","a","b","l","e","-","1",".","2",".","3">>
S_d2016_02 == <<"2","0","1","6","-","0","2">>
S_files_html == <<"f","i","l","e","s",".","h","t","m","l">>
S_dot_makehtml == <<".","m","a","k","e","h","t","m","l">>
S_junk == <<"j","u","n","k">>
S_PX4 == <<"P","X","4">>
S_navio == <<"n","a","v","i","o">>
S_pxf == <<"p","x","f">>
S_PX4_quad == <<"P","X","4","-","q","u","a","d">>
S_navio2 == <<"n","a","v","i","o","2">>
S_CubeBlack == <<"C","u","b","e","B","l","a","c","k">>
S_dot_git == <<".","g","i","t">>
S_git_version_txt == <<"g","i","t","-","v","e","r","s","i","o","n",".","t","x","t">>
S_firmware_version_txt == <<"f","i","r","m","w","a","r","e","-","v","e","r","s","i","o","n",".","t","x","t">>
S_ArduCopter_v1_px4 == <<"A","r","d","u","C","o","p","t","e","r","-","v","1",".","p","x","4">>
S_ArduCopter_v2_px4 == <<"A","r","d","u","C","o","p","t","e","r","-","v","2",".","p","x","4">>
S_ArduCopter_v3_px4 == <<"A","r","d","u","C","o","p","t","e","r","-","v","3",".","p","x","4">>
S_ArduCopter_v4_px4 == <<"A","r","d","u","C","o","p","t","e","r","-","v","4",".","p","x","4">>
S_ArduCopter_v4pro_px4 == <<"A","r","d","u","C","o","p","t","e","r","-","v","4","p","r","o",".","p","x","4">>
S_ArduCopter_v9_px4 == <<"A","r","d","u","C","o","p","t","e","r","-","v","9",".","p","x","4">>
S_a_b_v1_px4 == <<"a","-","b","-","v","1",".","p","x","4">>
S_ArduCopter_apj == <<"A","r","d","u","C","o","p","t","e","r",".","a","p","j">>
S_p_elf == <<"p",".","e","l","f">>
S_q_elf == <<"q",".","e","l","f">>
S_dot_hidden == <<".","h","i","d","d","e","n">>
S_v1_px4 == <<"v","1",".","p","x","4">>
S_v2_px4 == <<"v","2",".","p","x","4">>
S_v3_px4 == <<"v","3",".","p","x","4">>
S_v4_px4 == <<"v","4",".","p","x","4">>
S_v4pro_px4 == <<"v","4","p","r","o",".","p","x","4">>
S_px4 == <<"p","x","4">>
S_apj == <<"a","p","j">>
S_commit_ == <<"c","o","m","m","i","t"," ">>
S_quad == <<"q","u","a","d">>
S_hexa == <<"h","e","x","a">>
S_y6 == <<"y","6">>
S_tri == <<"t","r","i">>
S_octa == <<"o","c","t","a">>
S_octa_quad == <<"o","c","t","a","-","q","u","a","d">>
S_heli == <<"h","e","l","i">>
S_QUADROTOR == <<"Q","U","A","D","R","O","T","O","R">>
S_HEXAROTOR == <<"H","E","X","A","R","O","T","O","R">>
S_ARDUPILOT_Y6 == <<"A","R","D","U","P","I","L","O","T","_","Y","6">>
S_TRICOPTER == <<"T","R","I","C","O","P","T","E","R">>
S_OCTOROTOR == <<"O","C","T","O","R","O","T","O","R">>
S_ARDUPILOT_OCTAQUAD == <<"A","R","D","U","P","I","L","O","T","_","O","C","T","A","Q","U","A","D">>
S_HELICOPTER == <<"H","E","L","I","C","O","P","T","E","R">>
S_FIXED_WING == <<"F","I","X","E","D","_","W","I","N","G">>
S_ANTENNA_TRACKER == <<"A","N","T","E","N","N","A","_","T","R","A","C","K","E","R">>
S_GROUND_ROVER == <<"G","R","O","U","N","D","_","R","O","V","E","R">>
S_SUBMARINE == <<"S","U","B","M","A","R","I","N","E">>
S_OFFICIAL == <<"O","F","F","I","C","I","A","L">>
S_CubeOrange == <<"C","u","b","e","O","r","a","n","g","e">>
S_CubePurple == <<"C","u","b","e","P","u","r","p","l","e">>
S_CubeYellow == <<"C","u","b","e","Y","e","l","l","o","w">>
S_Pixhawk4 == <<"P","i","x","h","a","w","k","4">>
S_PH4_mini == <<"P","H","4","-","m","i","n","i">>
S_Pixhawk6 == <<"P","i","x","h","a","w","k","6">>
S_VRBrain_v51 == <<"V","R","B","r","a","i","n","-","v","5","1">>
S_VRBrain_v52 == <<"V","R","B","r","a","i","n","-","v","5","2">>
S_VRBrain_v54 == <<"V","R","B","r","a","i","n","-","v","5","4">>
S_VRCore_v10 == <<"V","R","C","o","r","e","-","v","1","0">>
S_VRUBrain_v51 == <<"V","R","U","B","r","a","i","n","-","v","5","1">>
S_BL == <<"-","B","L">>
S_usb_0010 == <<"0","x","2","6","A","C","/","0","x","0","0","1","0">>
S_usb_0011 == <<"0","x","2","6","A","C","/","0","x","0","0","1","1">>
S_usb_0012 == <<"0","x","2","6","A","C","/","0","x","0","0","1","2">>
S_usb_0013 == <<"0","x","2","6","A","C","/","0","x","0","0","1","3">>
S_usb_0032 == <<"0","x","2","6","A","C","/","0","x","0","0","3","2">>
S_usb_0030 == <<"0","x","2","6","A","C","/","0","x","0","0","3","0">>
S_bl_v1 == <<"P","X","4"," ","B","L"," ","F","M","U"," ","v","1",".","x">>
S_bl_v2 == <<"P","X","4"," ","B","L"," ","F","M","U"," ","v","2",".","x">>
S_bl_v4 == <<"P","X","4"," ","B","L"," ","F","M","U"," ","v","4",".","x">>
S_bl_v4pro == <<"P","X","4"," ","B","L"," ","F","M","U"," ","v","4",".","x"," ","P","R","O">>
S_bl_v5 == <<"P","X","4"," ","B","L"," ","F","M","U"," ","v","5",".","x">>
S_bl_mindpx == <<"M","i","n","d","P","X"," ","B","L"," ","F","M","U"," ","v","2",".","x">>
S_usb_CubeBlack == <<"0","x","2","D","A","E","/","0","x","1","0","1","1">>
S_usb_CubeOrange == <<"0","x","2","D","A","E","/","0","x","1","0","1","6">>
S_usb_CubePurple == <<"0","x","2","D","A","E","/","0","x","1","0","0","5">>
S_usb_CubeYellow == <<"0","x","2","D","A","E","/","0","x","1","0","0","2">>
S_usb_Pixhawk4 == <<"0","x","3","1","6","2","/","0","x","0","0","4","7">>
S_usb_PH4_mini == <<"0","x","3","1","6","2","/","0","x","0","0","4","9">>
S_usb_Pixhawk6 == <<"0","x","3","1","6","2","/","0","x","0","0","4","B">>
S_usb_VRBrain_v51 == <<"0","x","2","7","A","C","/","0","x","1","1","5","1">>
S_usb_VRBrain_v52 == <<"0","x","2","7","A","C","/","0","x","1","1","5","2">>
S_usb_VRBrain_v54 == <<"0","x","2","7","A","C","/","0","x","1","1","5","4">>
S_usb_VRCore_v10 == <<"0","x","2","7","A","C","/","0","x","1","9","1","0">>
S_usb_VRUBrain_v51 == <<"0","x","2","7","A","C","/","0","x","1","3","5","1">>
S_usb_generic == <<"0","x","0","4","8","3","/","0","x","5","7","4","0">>
S_ARDUPILOTMEGA == <<"A","R","D","U","P","I","L","O","T","M","E","G","A">>
S_default_baseurl == <<"h","t","t","p",":","/","/","f","i","r","m","w","a","r","e",".","a","r","d","u","p","i","l","o","t",".","o","r","g">>
S_gv_d0a == <<"c","o","m","m","i","t"," ","d","0","a","\n">>
S_gv_7f == <<"c","o","m","m","i","t"," ","7","f","\n">>
S_gv_x7f == <<"x"," ","c","o","m","m","i","t"," ","7","f","Z">>
S_gv_bad == <<"C","o","m","m","i","t"," ","A","B">>
S_fv_360beta == <<"3",".","6",".","0","-","b","e","t","a","\n">>
S_fv_36beta == <<"3",".","6","-","b","e","t","a">>
S_fv_360 == <<"3",".","6",".","0">>
S_v360beta == <<"3",".","6",".","0","-","b","e","t","a">>
S_v36beta == <<"3",".","6","-","b","e","t","a">>
S_PX4_v1 == <<"P","X","4","-","v","1">>
S_PX4_v2 == <<"P","X","4","-","v","2">>
S_PX4_v3 == <<"P","X","4","-","v","3">>
S_PX4_v4 == <<"P","X","4","-","v","4">>

(***************************************************************************)
(* Characters, in code point order (Python compares strings by code point) *)
(***************************************************************************)
ASCII == <<"\n"," ","-",".","/","0","1","2","3","4","5","6","7","8","9",":",
           "A","B","C","D","E","F","G","H","I","J","K","L","M","N","O","P","Q","R","S","T","U","V","W","X","Y","Z",
           "_",
           "a","b","c","d","e","f","g","h","i","j","k","l","m","n","o","p","q","r","s","t","u","v","w","x","y","z">>

Ord(c) == CHOOSE i \in 1..Len(ASCII) : ASCII[i] = c

Digits == {"0","1","2","3","4","5","6","7","8","9"}

HexLower == Digits \cup {"a","b","c","d","e","f"}

Whitespace == {" ", "\n"}

LowerCase == <<"a","b","c","d","e","f","g","h","i","j","k","l","m","n","o","p","q","r","s","t","u","v","w","x","y","z">>

UpperCase == <<"A","B","C","D","E","F","G","H","I","J","K","L","M","N","O","P","Q","R","S","T","U","V","W","X","Y","Z">>

\* the Python value None (a sequence, so that it compares with any str)
None == <<"None">>

(***************************************************************************)
(* str methods                                                             *)
(***************************************************************************)
\* s.startswith(p)
StartsWith(s, p) == Len(s) >= Len(p) /\ SubSeq(s, 1, Len(p)) = p

\* s[n:]
Drop(s, n) == SubSeq(s, n + 1, Len(s))

\* a < b on str
RECURSIVE StrLess(_, _)
StrLess(a, b) ==
    IF a = <<>> THEN b # <<>>
    ELSE IF b = <<>> THEN FALSE
    ELSE IF a[1] = b[1] THEN StrLess(Tail(a), Tail(b))
    ELSE Ord(a[1]) < Ord(b[1])

\* s.split(c), c a single character
RECURSIVE Split(_, _)
Split(s, c) ==
    IF \A i \in 1..Len(s) : s[i] # c THEN <<s>>
    ELSE LET i == CHOOSE k \in 1..Len(s) : s[k] = c /\ \A j \in 1..(k - 1) : s[j] # c
         IN  <<SubSeq(s, 1, i - 1)>> \o Split(Drop(s, i), c)

\* sep.join(parts)
RECURSIVE Join(_, _)
Join(sep, parts) ==
    IF parts = <<>> THEN <<>>
    ELSE IF Len(parts) = 1 THEN parts[1]
    ELSE parts[1] \o sep \o Join(sep, Tail(parts))

\* s.strip()
RECURSIVE Strip(_)
Strip(s) ==
    IF s = <<>> THEN s
    ELSE IF s[1] \in Whitespace THEN Strip(Tail(s))
    ELSE IF s[Len(s)] \in Whitespace THEN Strip(SubSeq(s, 1, Len(s) - 1))
    ELSE s

\* s.upper()
Upper(s) ==
    [i \in 1..Len(s) |->
        IF \E k \in 1..26 : LowerCase[k] = s[i]
        THEN UpperCase[CHOOSE k \in 1..26 : LowerCase[k] = s[i]]
        ELSE s[i]]

\* sorted(S): the listing in ascending order
RECURSIVE SortedAscending(_)
SortedAscending(S) ==
    IF S = {} THEN <<>>
    ELSE LET m == CHOOSE x \in S : \A y \in S \ {x} : StrLess(x, y)
         IN  <<m>> \o SortedAscending(S \ {m})

\* sorted(S, reverse=True) of a listing of distinct names
RECURSIVE SortedReverse(_)
SortedReverse(S) ==
    IF S = {} THEN <<>>
    ELSE LET m == CHOOSE x \in S : \A y \in S \ {x} : StrLess(y, x)
         IN  <<m>> \o SortedReverse(S \ {m})

\* os.path.join(a, b) on a POSIX system
PathJoin(a, b) ==
    IF StartsWith(b, <<"/">>) THEN b
    ELSE IF a = <<>> \/ a[Len(a)] = "/" THEN a \o b
    ELSE a \o <<"/">> \o b

\* fnmatch.fnmatch(s, p) for patterns made of literals, "*" and "?"
RECURSIVE FnMatch(_, _)
FnMatch(s, p) ==
    IF p = <<>> THEN s = <<>>
    ELSE IF p[1] = "*" THEN \E k \in 0..Len(s) : FnMatch(Drop(s, k), Tail(p))
    ELSE IF s = <<>> THEN FALSE
    ELSE (p[1] = "?" \/ p[1] = s[1]) /\ FnMatch(Tail(s), Tail(p))

(***************************************************************************)
(* Module-level tables and the pure methods of ManifestGenerator           *)
(***************************************************************************)
FIRMWARE_TYPES == <<S_AntennaTracker, S_Copter, S_Plane, S_Rover, S_Sub>>

RELEASE_TYPES == <<S_beta, S_latest, S_stable, S_stable_star>>

\* frame_map: ArduPilot frame names to mavlink names, others unchanged
frame_map(frame) ==
    CASE frame = S_quad           -> S_QUADROTOR
      [] frame = S_hexa           -> S_HEXAROTOR
      [] frame = S_y6             -> S_ARDUPILOT_Y6
      [] frame = S_tri            -> S_TRICOPTER
      [] frame = S_octa           -> S_OCTOROTOR
      [] frame = S_octa_quad      -> S_ARDUPILOT_OCTAQUAD
      [] frame = S_heli           -> S_HELICOPTER
      [] frame = S_Plane          -> S_FIXED_WING
      [] frame = S_AntennaTracker -> S_ANTENNA_TRACKER
      [] frame = S_Rover          -> S_GROUND_ROVER
      [] frame = S_Sub            -> S_SUBMARINE
      [] OTHER                    -> frame

\* releasetype_map
releasetype_map(releasetype) ==
    IF releasetype = S_stable THEN S_OFFICIAL ELSE Upper(releasetype)

\* the longest prefix of s made of characters of cs
RECURSIVE Run(_, _)
Run(s, cs) ==
    IF s # <<>> /\ s[1] \in cs THEN <<s[1]>> \o Run(Tail(s), cs) ELSE <<>>

\* s.lower()
Lower(s) ==
    [i \in 1..Len(s) |->
        IF \E k \in 1..26 : UpperCase[k] = s[i]
        THEN LowerCase[CHOOSE k \in 1..26 : UpperCase[k] = s[i]]
        ELSE s[i]]

\* the search of git_sha_from_git_version with case ignored
git_sha_ignoring_case(content) ==
    LET c      == Lower(content)
        starts == {i \in 1..Len(c) :
                      /\ StartsWith(Drop(c, i - 1), S_commit_)
                      /\ Len(c) >= i + 7
                      /\ c[i + 7] \in HexLower}
    IN  IF starts = {} THEN None
        ELSE LET i == CHOOSE k \in starts : \A j \in starts : k <= j
             IN  Run(Drop(c, i + 6), HexLower)

\* git_sha_from_git_version on the content of git-version.txt:
\* re.search("commit (?P<sha>[0-9a-f]+)"); None stands for the exception
git_sha_from_git_version(content) ==
    LET starts == {i \in 1..Len(content) :
                      /\ StartsWith(Drop(content, i - 1), S_commit_)
                      /\ Len(content) >= i + 7
                      /\ content[i + 7] \in HexLower}
    IN  IF starts = {} THEN None
        ELSE LET i == CHOOSE k \in starts : \A j \in starts : k <= j
             IN  Run(Drop(content, i + 6), HexLower)

\* valid_release_type
valid_release_type(tag) ==
    \E i \in 1..Len(RELEASE_TYPES) : FnMatch(tag, RELEASE_TYPES[i])

\* year_month_regex.match: "(?P<year>\d{4})-(?P<month>\d{2})" at the start
year_month_regex(s) ==
    /\ Len(s) >= 7
    /\ \A i \in {1, 2, 3, 4, 6, 7} : s[i] \in Digits
    /\ s[5] = "-"

\* platform_frame_regex.match: "(?P<board>PX4|navio|pxf)(-(?P<frame>.+))?"
Boards == <<S_PX4, S_navio, S_pxf>>

platform_frame_regex(platformdir) ==
    IF \E i \in 1..Len(Boards) : StartsWith(platformdir, Boards[i])
    THEN LET i    == CHOOSE k \in 1..Len(Boards) :
                        /\ StartsWith(platformdir, Boards[k])
                        /\ \A j \in 1..(k - 1) : ~StartsWith(platformdir, Boards[j])
             rest == Drop(platformdir, Len(Boards[i]))
         IN  [matched |-> TRUE,
              board   |-> Boards[i],
              frame   |-> IF Len(rest) >= 2 /\ rest[1] = "-" THEN Drop(rest, 1) ELSE None]
    ELSE [matched |-> FALSE, board |-> None, frame |-> None]

\* variant_firmware_regex.match: "[^-]+-(?P<variant>v\d+)[.px4]" at the
\* start; the variant, or None when there is no match.  \d+ is greedy and
\* gives digits back until the next character is one of ".px4".
variant_firmware_regex(file) ==
    IF \A i \in 1..Len(file) : file[i] # "-" THEN None
    ELSE LET d   == CHOOSE k \in 1..Len(file) : file[k] = "-" /\ \A j \in 1..(k - 1) : file[j] # "-"
             n   == Len(Run(Drop(file, d + 1), Digits))
             ks  == {k \in 1..n : Len(file) >= d + 2 + k /\ file[d + 2 + k] \in {".", "p", "x", "4"}}
         IN  IF d >= 2 /\ Len(file) >= d + 1 /\ file[d + 1] = "v" /\ ks # {}
             THEN <<"v">> \o SubSeq(file, d + 2, d + 1 + (CHOOSE k \in ks : \A j \in ks : j <= k))
             ELSE None

\* "".join(file.split(".")[-1:])
firmware_format(file) == LET parts == Split(file, ".") IN parts[Len(parts)]

\* lines 228-239 without the reset of firmware_version in the ValueError handler
read_firmware_version_keeping(content) ==
    IF content = None THEN [version |-> None, log |-> "bad file"]
    ELSE LET firmware_version == Strip(content)
         IN  IF Len(Split(firmware_version, "-")) = 2
             THEN [version |-> firmware_version, log |-> ""]
             ELSE [version |-> firmware_version, log |-> "malformed firmware-version.txt"]

\* lines 228-239: firmware-version.txt as the accumulator reads it; the
\* content None stands for a file that cannot be opened
read_firmware_version(content) ==
    IF content = None THEN [version |-> None, log |-> "bad file"]
    ELSE LET firmware_version == Strip(content)
         IN  IF Len(Split(firmware_version, "-")) = 2
             THEN [version |-> firmware_version, log |-> ""]
             ELSE [version |-> None, log |-> "malformed firmware-version.txt"]

\* parse_fw_version that takes missing components as "0"
parse_fw_version_padded(version) ==
    LET parts == Split(version, "-")
        nums  == Split(parts[1], ".") \o << <<"0">>, <<"0">>, <<"0">> >>
    IN  [ok |-> TRUE, major |-> nums[1], minor |-> nums[2], patch |-> nums[3],
         version |-> version]

\* parse_fw_version: both unpackings need the exact number of parts
parse_fw_version(version) ==
    LET parts == Split(version, "-")
    IN  IF Len(parts) # 2 THEN [ok |-> FALSE]
        ELSE LET nums == Split(parts[1], ".")
             IN  IF Len(nums) # 3 THEN [ok |-> FALSE]
                 ELSE [ok |-> TRUE, major |-> nums[1], minor |-> nums[2],
                       patch |-> nums[3], version |-> version]

(***************************************************************************)
(* Python dict: insertion-ordered sequence of <<key, value>> pairs         *)
(***************************************************************************)
EmptyDict == [isdict |-> TRUE, items |-> <<>>]

\* k in d
Has(d, k) == \E i \in 1..Len(d.items) : d.items[i][1] = k

\* d[k]
Get(d, k) == d.items[CHOOSE i \in 1..Len(d.items) : d.items[i][1] = k][2]

\* d[k] = v : replaces the value of an existing key, else appends the key
Put(d, k, v) ==
    IF Has(d, k)
    THEN [d EXCEPT !.items = [i \in 1..Len(@) |-> IF @[i][1] = k THEN <<k, v>> ELSE @[i]]]
    ELSE [d EXCEPT !.items = Append(@, <<k, v>>)]

\* d[k] if k in d, else the dict() that lines 273-287 would create
GetOrNew(d, k) == IF Has(d, k) THEN Get(d, k) ELSE EmptyDict

\* atts[name] = value
SetItem(atts, name, value) == (name :> value) @@ atts

\* Firmware(): the attributes set by the constructor
Firmware ==
    [isdict |-> FALSE,
     atts   |-> [k \in {"date", "platform", "vehicletype", "filepath", "git_sha",
                        "frame", "release-type", "firmware-version"} |-> None]]

(***************************************************************************)
(* add_firmware_data_from_dir, lines 260-316: one firmware file            *)
(***************************************************************************)
\* lines 260-269: the platform key of a file
file_platform_of(platform, file) ==
    LET variant == variant_firmware_regex(file)
    IN  IF variant # None THEN Join(<<"-">>, <<platform, variant>>) ELSE platform

\* channel_policy with the release type of a named channel set only when unset
channel_policy_keeping_first(atts, releasetype, path) ==
    LET f0 == SetItem(atts, "latest", 0)
    IN  IF releasetype = S_dev
        THEN LET f1 == IF f0["filepath"] = None THEN SetItem(f0, "filepath", path) ELSE f0
             IN  IF f1["release-type"] = None THEN SetItem(f1, "release-type", S_dev) ELSE f1
        ELSE IF releasetype = S_latest
        THEN LET f1 == SetItem(SetItem(f0, "latest", 1), "filepath", path)
             IN  IF f1["release-type"] = None THEN SetItem(f1, "release-type", S_dev) ELSE f1
        ELSE LET f1 == IF f0["latest"] = 0 THEN SetItem(f0, "filepath", path) ELSE f0
             IN  IF f1["release-type"] = None THEN SetItem(f1, "release-type", releasetype) ELSE f1

\* lines 294-308: the "latest" flag, the release type and the file path
channel_policy(atts, releasetype, path) ==
    LET f0 == SetItem(atts, "latest", 0)
    IN  IF releasetype = S_dev
        THEN LET f1 == IF f0["filepath"] = None THEN SetItem(f0, "filepath", path) ELSE f0
             IN  IF f1["release-type"] = None THEN SetItem(f1, "release-type", S_dev) ELSE f1
        ELSE IF releasetype = S_latest
        THEN LET f1 == SetItem(SetItem(f0, "latest", 1), "filepath", path)
             IN  IF f1["release-type"] = None THEN SetItem(f1, "release-type", S_dev) ELSE f1
        ELSE LET f1 == IF f0["latest"] = 0 THEN SetItem(f0, "filepath", path) ELSE f0
             IN  SetItem(f1, "release-type", releasetype)

\* lines 310-316: the attributes refreshed on every visit
refresh(atts, file_platform, vehicletype, git_sha, frame, firmware_format_, firmware_version) ==
    SetItem(SetItem(SetItem(SetItem(SetItem(SetItem(atts,
        "platform", file_platform),
        "vehicletype", vehicletype),
        "git_sha", git_sha),
        "frame", frame),
        "format", firmware_format_),
        "firmware-version", firmware_version)

\* lines 273-289: the record of a tuple, created on the first encounter
lookup(firmware_data, vehicletype, file_platform, git_sha, firmware_format_, frame) ==
    LET by_platform == GetOrNew(firmware_data, vehicletype)
        by_sha      == GetOrNew(by_platform, file_platform)
        sha_dict    == GetOrNew(by_sha, git_sha)
        by_frame    == GetOrNew(sha_dict, firmware_format_)
    IN  IF Has(by_frame, frame) THEN Get(by_frame, frame) ELSE Firmware

\* store with the innermost dict keyed by the vehicle type instead of the frame
store_under_vehicletype(firmware_data, vehicletype, file_platform, git_sha, firmware_format_, frame, firmware) ==
    LET by_platform == GetOrNew(firmware_data, vehicletype)
        by_sha      == GetOrNew(by_platform, file_platform)
        sha_dict    == GetOrNew(by_sha, git_sha)
        by_frame    == GetOrNew(sha_dict, firmware_format_)
    IN  Put(firmware_data, vehicletype,
            Put(by_platform, file_platform,
                Put(by_sha, git_sha,
                    Put(sha_dict, firmware_format_,
                        Put(by_frame, vehicletype, firmware)))))

\* the nested dicts with the record of the tuple replaced
store(firmware_data, vehicletype, file_platform, git_sha, firmware_format_, frame, firmware) ==
    LET by_platform == GetOrNew(firmware_data, vehicletype)
        by_sha      == GetOrNew(by_platform, file_platform)
        sha_dict    == GetOrNew(by_sha, git_sha)
        by_frame    == GetOrNew(sha_dict, firmware_format_)
    IN  Put(firmware_data, vehicletype,
            Put(by_platform, file_platform,
                Put(by_sha, git_sha,
                    Put(sha_dict, firmware_format_,
                        Put(by_frame, frame, firmware)))))

\* lines 260-316 for one file of a platform directory
add_firmware(firmware_data, vehicletype, releasetype, some_dir, platform, frame, git_sha, firmware_version, file) ==
    LET file_platform    == file_platform_of(platform, file)
        firmware_format_ == firmware_format(file)
        firmware         == lookup(firmware_data, vehicletype, file_platform, git_sha,
                                   firmware_format_, frame)
        atts1            == channel_policy(firmware.atts, releasetype, PathJoin(some_dir, file))
        atts2            == refresh(atts1, file_platform, vehicletype, git_sha, frame,
                                    firmware_format_, firmware_version)
    IN  store(firmware_data, vehicletype, file_platform, git_sha, firmware_format_, frame,
              [firmware EXCEPT !.atts = atts2])

(***************************************************************************)
(* xfirmwares_to_firmwares: the leaves of the nested dicts, in dict order  *)
(***************************************************************************)
RECURSIVE xfirmwares_to_firmwares(_)
RECURSIVE extend_values(_)
extend_values(items) ==
    IF items = <<>> THEN <<>>
    ELSE xfirmwares_to_firmwares(items[1][2]) \o extend_values(Tail(items))

xfirmwares_to_firmwares(xfirmwares) ==
    IF xfirmwares.isdict THEN extend_values(xfirmwares.items) ELSE <<xfirmwares>>

(***************************************************************************)
(* Projection, walk_directory lines 396-437                                *)
(***************************************************************************)
\* the arguments of ManifestGenerator(basedir, baseurl)
basedir == <<"/", "b">>

baseurl == S_default_baseurl

\* lines 403-404: re.sub("^" + re.escape(basedir), baseurl, filepath)
urlify(filepath) ==
    IF StartsWith(filepath, basedir) THEN baseurl \o Drop(filepath, Len(basedir))
    ELSE filepath

\* lines 401-416: the entry before the optional keys
some_json_of(firmware) ==
    [k \in {"mav-autopilot", "platform", "git-sha", "url", "mav-type",
            "mav-firmware-version-type", "latest", "format"} |->
        CASE k = "mav-autopilot"             -> S_ARDUPILOTMEGA
          [] k = "platform"                  -> firmware["platform"]
          [] k = "git-sha"                   -> firmware["git_sha"]
          [] k = "url"                       -> urlify(firmware["filepath"])
          [] k = "mav-type"                  -> frame_map(firmware["frame"])
          [] k = "mav-firmware-version-type" -> releasetype_map(firmware["release-type"])
          [] k = "latest"                    -> firmware["latest"]
          [] k = "format"                    -> firmware["format"]]

\* lines 417-425: the version keys; ok is FALSE when parse_fw_version raises
add_fw_version(some_json, firmware) ==
    IF firmware["firmware-version"] = None \/ firmware["firmware-version"] = <<>>
    THEN [ok |-> TRUE, json |-> some_json]
    ELSE LET v == parse_fw_version(firmware["firmware-version"])
         IN  IF ~v.ok THEN [ok |-> FALSE, json |-> some_json]
             ELSE [ok   |-> TRUE,
                   json |-> SetItem(SetItem(SetItem(SetItem(some_json,
                              "mav-firmware-version", Join(<<".">>, <<v.major, v.minor, v.patch>>)),
                              "mav-firmware-version-major", v.major),
                              "mav-firmware-version-minor", v.minor),
                              "mav-firmware-version-patch", v.patch)]

\* the three USB keys of an entry
usb_keys(firmware, USBID, board_id, bootloader_str) ==
    SetItem(SetItem(SetItem(firmware, "USBID", USBID), "board_id", board_id),
            "bootloader_str", bootloader_str)

\* add_USB_IDs_PX4 with "v3.px4" missing from the second branch
add_USB_IDs_PX4_without_v3(firmware) ==
    LET parts  == Split(firmware["url"], "-")
        suffix == parts[Len(parts)]
    IN  IF suffix = S_v1_px4 THEN usb_keys(firmware, <<S_usb_0010>>, 5, <<S_bl_v1>>)
        ELSE IF suffix \in {S_v2_px4} THEN usb_keys(firmware, <<S_usb_0011>>, 9, <<S_bl_v2>>)
        ELSE IF suffix = S_v4_px4 THEN usb_keys(firmware, <<S_usb_0012>>, 11, <<S_bl_v4>>)
        ELSE IF suffix = S_v4pro_px4 THEN usb_keys(firmware, <<S_usb_0013>>, 13, <<S_bl_v4pro>>)
        ELSE firmware

\* add_USB_IDs_PX4
add_USB_IDs_PX4(firmware) ==
    LET parts  == Split(firmware["url"], "-")
        suffix == parts[Len(parts)]
    IN  IF suffix = S_v1_px4 THEN usb_keys(firmware, <<S_usb_0010>>, 5, <<S_bl_v1>>)
        ELSE IF suffix \in {S_v2_px4, S_v3_px4} THEN usb_keys(firmware, <<S_usb_0011>>, 9, <<S_bl_v2>>)
        ELSE IF suffix = S_v4_px4 THEN usb_keys(firmware, <<S_usb_0012>>, 11, <<S_bl_v4>>)
        ELSE IF suffix = S_v4pro_px4 THEN usb_keys(firmware, <<S_usb_0013>>, 13, <<S_bl_v4pro>>)
        ELSE firmware

\* USBID_MAP of add_USB_IDs_ChibiOS, with the generic id for other platforms
USBID_MAP(platform) ==
    CASE platform = S_CubeBlack    -> <<S_usb_CubeBlack>>
      [] platform = S_CubeOrange   -> <<S_usb_CubeOrange>>
      [] platform = S_CubePurple   -> <<S_usb_CubePurple>>
      [] platform = S_CubeYellow   -> <<S_usb_CubeYellow>>
      [] platform = S_Pixhawk4     -> <<S_usb_Pixhawk4>>
      [] platform = S_PH4_mini     -> <<S_usb_PH4_mini>>
      [] platform = S_Pixhawk6     -> <<S_usb_Pixhawk6>>
      [] platform = S_VRBrain_v51  -> <<S_usb_VRBrain_v51>>
      [] platform = S_VRBrain_v52  -> <<S_usb_VRBrain_v52>>
      [] platform = S_VRBrain_v54  -> <<S_usb_VRBrain_v54>>
      [] platform = S_VRCore_v10   -> <<S_usb_VRCore_v10>>
      [] platform = S_VRUBrain_v51 -> <<S_usb_VRUBrain_v51>>
      [] OTHER                     -> <<S_usb_generic>>

\* lines 159-182: one special case of a board id
special_case(firmware, id, bootloader, usbid) ==
    IF firmware["board_id"] = id
    THEN SetItem(SetItem(firmware, "bootloader_str", Append(firmware["bootloader_str"], bootloader)),
                 "USBID", Append(firmware["USBID"], usbid))
    ELSE firmware

\* add_USB_IDs_ChibiOS.  exists: os.path.exists(apj_path); apj: the parsed
\* content of the file.  ok is FALSE when json.load raises.
add_USB_IDs_ChibiOS(firmware, exists, apj) ==
    IF ~exists THEN [ok |-> TRUE, json |-> firmware, log |-> "bad apj path"]
    ELSE IF ~apj.valid THEN [ok |-> FALSE, json |-> firmware, log |-> ""]
    ELSE IF ~apj.has_board_id THEN [ok |-> TRUE, json |-> firmware, log |-> "no board_id"]
    ELSE IF "platform" \notin DOMAIN firmware THEN [ok |-> TRUE, json |-> firmware, log |-> "no platform"]
    ELSE LET platform == firmware["platform"]
             f0 == usb_keys(firmware, USBID_MAP(platform), apj.board_id, <<platform \o S_BL>>)
             f1 == special_case(f0, 50, S_bl_v5, S_usb_0032)
             f2 == special_case(f1, 9, S_bl_v2, S_usb_0011)
             f3 == special_case(f2, 11, S_bl_v4, S_usb_0012)
             f4 == special_case(f3, 13, S_bl_v4pro, S_usb_0013)
             f5 == special_case(f4, 88, S_bl_mindpx, S_usb_0030)
         IN  [ok |-> TRUE, json |-> f5, log |-> ""]

\* the path add_USB_IDs_ChibiOS opens: basedir joined with the url less baseurl
apj_path_of(firmware) == PathJoin(basedir, Drop(firmware["url"], Len(baseurl) + 1))

\* add_USB_IDs
add_USB_IDs(firmware, exists, apj) ==
    IF firmware["format"] = S_px4
    THEN [ok |-> TRUE, json |-> add_USB_IDs_PX4(firmware), log |-> ""]
    ELSE IF firmware["format"] = S_apj
    THEN add_USB_IDs_ChibiOS(firmware, exists, apj)
    ELSE [ok |-> TRUE, json |-> firmware, log |-> ""]

(***************************************************************************)
(* Bounds of the model and the names the file system is drawn from         *)
(***************************************************************************)
\* entries of the vehicle type directories, in the whole tree
MaxEntries == 3

\* platform directories, in the whole tree
MaxDirs == 2

\* firmware files visited, in the whole tree
MaxVisits == 2

\* the vehicle types that basedir may hold an entry for, a directory or a file
BasedirNames == {S_Copter, S_Plane}

\* The trees that are scanned vary in one respect at a time: the release
\* directories, the platform directories, the firmware-version.txt files
\* or the firmware files.  "direct" is the tree of a caller that hands
\* directories to add_firmware_data_from_dir itself.
TreeKinds == {"channels", "platforms", "versions", "files"}

FirstLevelNames(t) ==
    CASE t = "channels"  -> {S_stable_1_2_3, S_stable, S_latest, S_beta, S_d2016_02,
                             S_files_html, S_dot_makehtml, S_junk}
      [] t = "versions"  -> {S_stable, S_latest}
      [] OTHER           -> {S_stable}

PlatformDirNames(t) ==
    CASE t = "platforms" -> {S_PX4, S_PX4_quad, S_navio, S_navio2, S_CubeBlack, S_dot_git}
      [] t = "files"     -> {S_PX4}
      [] t = "direct"    -> {S_navio, S_dot_git}
      [] OTHER           -> {S_navio}

\* whether an entry of a release directory is a directory
IsDirs(t) == IF t \in {"platforms", "direct"} THEN BOOLEAN ELSE {TRUE}

\* contents of git-version.txt; None: the file does not exist
GitVersionContents(t) ==
    CASE t = "platforms" -> {S_gv_d0a, S_gv_x7f, S_gv_bad, None}
      [] t = "direct"    -> {S_gv_d0a, S_gv_bad, None}
      [] OTHER           -> {S_gv_d0a}

\* contents of firmware-version.txt; None: the file cannot be opened
FwVersionContents(t) ==
    CASE t = "versions"  -> {S_fv_360beta, S_fv_36beta, S_fv_360, None}
      [] OTHER           -> {S_fv_360beta}

FileNames(t) ==
    CASE t = "files"     -> {S_ArduCopter_v1_px4, S_ArduCopter_v2_px4, S_ArduCopter_v3_px4,
                             S_ArduCopter_v4_px4, S_ArduCopter_v4pro_px4, S_ArduCopter_v9_px4,
                             S_a_b_v1_px4, S_ArduCopter_apj, S_p_elf, S_q_elf,
                             S_files_html, S_dot_hidden}
      [] OTHER           -> {S_p_elf}

\* parsed contents of an .apj file
ApjContents ==
    {[valid |-> FALSE, has_board_id |-> FALSE, board_id |-> 0],
     [valid |-> TRUE, has_board_id |-> FALSE, board_id |-> 0]}
    \cup {[valid |-> TRUE, has_board_id |-> TRUE, board_id |-> b] : b \in {9, 50, 140}}

\* releasetype arguments of a direct call of add_firmware_data_from_dir
ReleaseTypeArgs == {S_dev, S_latest, S_beta, S_stable, S_stable_1_2_3}

\* os.listdir: the entries of a directory in any order
Listings(S, n) ==
    UNION {{s \in [1..k -> S] : \A i, j \in 1..k : i # j => s[i] # s[j]} : k \in 0..n}

(***************************************************************************)
(* State                                                                   *)
(***************************************************************************)
VARIABLES
    tree,          \* the kind of tree under basedir
    pc,            \* position in walk_directory / add_firmware_data_from_dir
    vi,            \* index of vehicletype in FIRMWARE_TYPES
    vdir,          \* the local vdir of walk_directory
    fl,            \* index of firstlevel in vdir
    call,          \* arguments of the running add_firmware_data_from_dir
    dlist,         \* platform directories still to visit
    cur,           \* locals of the current platformdir iteration
    files,         \* files of the platform directory still to visit
    xfirmwares,    \* the nested dicts
    firmwares,     \* the list returned by xfirmwares_to_firmwares
    firmware_json, \* the entries projected so far
    stderr,        \* the messages printed to sys.stderr
    visits,        \* history: the files that reached lines 260-316
    ndirs,         \* history: number of platform directories listed
    nentries       \* history: number of entries of vehicle type directories listed

vars == <<tree, pc, vi, vdir, fl, call, dlist, cur, files, xfirmwares, firmwares,
          firmware_json, stderr, visits, ndirs, nentries>>

NoCall == [dir |-> <<>>, vehicletype |-> <<>>, releasetype |-> <<>>, ret |-> "none"]

NoCur == [platformdir |-> <<>>, isdir |-> FALSE, git_version |-> None, git_sha |-> None,
          fwv_content |-> None, firmware_version |-> None, platform |-> None, frame |-> None]

InitCommon ==
    /\ vi = 1
    /\ vdir = [bound |-> FALSE, isdir |-> FALSE, list |-> <<>>]
    /\ fl = 1
    /\ call = NoCall
    /\ dlist = <<>>
    /\ cur = NoCur
    /\ files = <<>>
    /\ xfirmwares = EmptyDict
    /\ firmwares = <<>>
    /\ firmware_json = <<>>
    /\ stderr = <<>>
    /\ visits = <<>>
    /\ ndirs = 0
    /\ nentries = 0

\* walk_directory is entered
Init == tree \in TreeKinds /\ pc = "vehicletype" /\ InitCommon

\* a caller holds an empty firmware_data and calls add_firmware_data_from_dir
InitAcc == tree = "direct" /\ pc = "idle" /\ InitCommon

vehicletype == FIRMWARE_TYPES[vi]

firstlevel == vdir.list[fl]

(***************************************************************************)
(* walk_directory, lines 351-394                                           *)
(***************************************************************************)
\* lines 355-358: os.listdir raises OSError with errno 2
VehicleMissing ==
    /\ pc = "vehicletype" /\ vi <= Len(FIRMWARE_TYPES)
    /\ vi' = vi + 1
    /\ UNCHANGED <<tree, nentries, pc, vdir, fl, call, dlist, cur, files, xfirmwares, firmwares,
                   firmware_json, stderr, visits, ndirs>>

\* lines 355-359: os.listdir raises OSError with another errno (the entry is
\* not a directory); the handler falls through to the loop over the vdir of
\* the previous vehicle type, or to an unbound local
VehicleListError ==
    /\ pc = "vehicletype" /\ vi <= Len(FIRMWARE_TYPES)
    /\ vehicletype \in BasedirNames
    /\ IF vdir.bound
       THEN /\ pc' = "firstlevel"
            /\ vdir' = [vdir EXCEPT !.isdir = FALSE]
            /\ fl' = 1
       ELSE /\ pc' = "aborted"
            /\ UNCHANGED <<vdir, fl>>
    /\ UNCHANGED <<tree, nentries, vi, call, dlist, cur, files, xfirmwares, firmwares,
                   firmware_json, stderr, visits, ndirs>>

\* line 355: the sorted listing of the vehicle type directory
VehicleListed ==
    /\ pc = "vehicletype" /\ vi <= Len(FIRMWARE_TYPES)
    /\ vehicletype \in BasedirNames
    /\ \E listing \in SUBSET FirstLevelNames(tree) :
          /\ Cardinality(listing) <= MaxEntries - nentries
          /\ vdir' = [bound |-> TRUE, isdir |-> TRUE, list |-> SortedReverse(listing)]
          /\ nentries' = nentries + Cardinality(listing)
    /\ fl' = 1
    /\ pc' = "firstlevel"
    /\ UNCHANGED <<tree, vi, call, dlist, cur, files, xfirmwares, firmwares,
                   firmware_json, stderr, visits, ndirs>>

\* line 359: the loop over vdir is exhausted
FirstLevelDone ==
    /\ pc = "firstlevel" /\ fl > Len(vdir.list)
    /\ vi' = vi + 1
    /\ pc' = "vehicletype"
    /\ UNCHANGED <<tree, nentries, vdir, fl, call, dlist, cur, files, xfirmwares, firmwares,
                   firmware_json, stderr, visits, ndirs>>

\* lines 360-362: generated and hidden entries
FirstLevelGenerated ==
    /\ pc = "firstlevel" /\ fl <= Len(vdir.list)
    /\ firstlevel = S_files_html \/ StartsWith(firstlevel, <<".">>)
    /\ fl' = fl + 1
    /\ UNCHANGED <<tree, nentries, pc, vi, vdir, call, dlist, cur, files, xfirmwares, firmwares,
                   firmware_json, stderr, visits, ndirs>>

\* lines 364-367: dated directories are not included
FirstLevelDated ==
    /\ pc = "firstlevel" /\ fl <= Len(vdir.list)
    /\ ~(firstlevel = S_files_html \/ StartsWith(firstlevel, <<".">>))
    /\ year_month_regex(firstlevel)
    /\ fl' = fl + 1
    /\ UNCHANGED <<tree, nentries, pc, vi, vdir, call, dlist, cur, files, xfirmwares, firmwares,
                   firmware_json, stderr, visits, ndirs>>

\* lines 384-387: the tag is not a release type.  The message is built with
\* os.path.join(vdir), vdir a list: Python 2 returns the list and the
\* warning is printed, Python 3 raises TypeError
FirstLevelUnknownTag ==
    /\ pc = "firstlevel" /\ fl <= Len(vdir.list)
    /\ ~(firstlevel = S_files_html \/ StartsWith(firstlevel, <<".">>))
    /\ ~year_month_regex(firstlevel)
    /\ ~valid_release_type(firstlevel)
    /\ \/ /\ stderr' = Append(stderr, "Unknown tag")
          /\ fl' = fl + 1
          /\ pc' = pc
       \/ /\ pc' = "aborted"
          /\ UNCHANGED <<stderr, fl>>
    /\ UNCHANGED <<tree, nentries, vi, vdir, call, dlist, cur, files, xfirmwares, firmwares,
                   firmware_json, visits, ndirs>>

\* lines 388-390 and 203-204: the tag is not a directory
FirstLevelNotDir ==
    /\ pc = "firstlevel" /\ fl <= Len(vdir.list)
    /\ ~(firstlevel = S_files_html \/ StartsWith(firstlevel, <<".">>))
    /\ ~year_month_regex(firstlevel)
    /\ valid_release_type(firstlevel)
    /\ fl' = fl + 1
    /\ UNCHANGED <<tree, nentries, pc, vi, vdir, call, dlist, cur, files, xfirmwares, firmwares,
                   firmware_json, stderr, visits, ndirs>>

\* lines 203-210: add_firmware_data_from_dir lists dir
Enter(dir, vt, releasetype, ret) ==
    /\ \E dl \in Listings(PlatformDirNames(tree), MaxDirs - ndirs) :
          /\ dlist' = dl
          /\ ndirs' = ndirs + Len(dl)
    /\ call' = [dir |-> dir, vehicletype |-> vt, releasetype |-> releasetype, ret |-> ret]
    /\ pc' = "platformdir"

\* lines 388-394: a release directory is handed to the accumulator
FirstLevelTag ==
    /\ pc = "firstlevel" /\ fl <= Len(vdir.list)
    /\ ~(firstlevel = S_files_html \/ StartsWith(firstlevel, <<".">>))
    /\ ~year_month_regex(firstlevel)
    /\ valid_release_type(firstlevel)
    /\ vdir.isdir
    /\ Enter(PathJoin(PathJoin(basedir, vehicletype), firstlevel), vehicletype,
             firstlevel, "firstlevel")
    /\ UNCHANGED <<tree, nentries, vi, vdir, fl, cur, files, xfirmwares, firmwares,
                   firmware_json, stderr, visits>>

(***************************************************************************)
(* add_firmware_data_from_dir, lines 210-316                               *)
(***************************************************************************)
platformdir == dlist[1]

\* line 210: the loop over dlist is exhausted and the method returns
PlatformDirsDone ==
    /\ pc = "platformdir" /\ dlist = <<>>
    /\ pc' = call.ret
    /\ fl' = IF call.ret = "firstlevel" THEN fl + 1 ELSE fl
    /\ call' = NoCall
    /\ UNCHANGED <<tree, nentries, vi, vdir, dlist, cur, files, xfirmwares, firmwares,
                   firmware_json, stderr, visits, ndirs>>

\* lines 211-212: hidden entries
PlatformDirHidden ==
    /\ pc = "platformdir" /\ dlist # <<>>
    /\ StartsWith(platformdir, <<".">>)
    /\ dlist' = Tail(dlist)
    /\ UNCHANGED <<tree, nentries, pc, vi, vdir, fl, call, cur, files, xfirmwares, firmwares,
                   firmware_json, stderr, visits, ndirs>>

\* lines 213-217: what the file system holds for the entry: whether it is a
\* directory and the content of its git-version.txt (None: no such file)
PlatformDirStat ==
    /\ pc = "platformdir" /\ dlist # <<>>
    /\ ~StartsWith(platformdir, <<".">>)
    /\ \E isdir \in IsDirs(tree) :
       \E git_version \in IF isdir THEN GitVersionContents(tree) ELSE {None} :
          cur' = [NoCur EXCEPT !.platformdir = platformdir,
                               !.isdir = isdir,
                               !.git_version = git_version]
    /\ pc' = "git_version"
    /\ UNCHANGED <<tree, nentries, vi, vdir, fl, call, dlist, files, xfirmwares, firmwares,
                   firmware_json, stderr, visits, ndirs>>

\* lines 214-215: not a directory
PlatformDirNotDir ==
    /\ pc = "git_version" /\ ~cur.isdir
    /\ pc' = "platformdir"
    /\ dlist' = Tail(dlist)
    /\ cur' = NoCur
    /\ UNCHANGED <<tree, nentries, vi, vdir, fl, call, files, xfirmwares, firmwares,
                   firmware_json, stderr, visits, ndirs>>

\* lines 217-219: no git-version.txt
PlatformDirNoGitVersion ==
    /\ pc = "git_version" /\ cur.isdir
    /\ cur.git_version = None
    /\ stderr' = Append(stderr, "No file")
    /\ pc' = "platformdir"
    /\ dlist' = Tail(dlist)
    /\ cur' = NoCur
    /\ UNCHANGED <<tree, nentries, vi, vdir, fl, call, files, xfirmwares, firmwares,
                   firmware_json, visits, ndirs>>

\* lines 220-224: git-version.txt holds no commit
PlatformDirBadGitVersion ==
    /\ pc = "git_version" /\ cur.isdir
    /\ cur.git_version # None
    /\ git_sha_from_git_version(cur.git_version) = None
    /\ stderr' = Append(stderr, "Failed to parse")
    /\ pc' = "platformdir"
    /\ dlist' = Tail(dlist)
    /\ cur' = NoCur
    /\ UNCHANGED <<tree, nentries, vi, vdir, fl, call, files, xfirmwares, firmwares,
                   firmware_json, visits, ndirs>>

\* lines 241-252: platform and frame of a platform directory
platform_and_frame(dirname, vt) ==
    LET m == platform_frame_regex(dirname)
    IN  IF m.matched
        THEN [platform |-> m.board, frame |-> IF m.frame = None THEN vt ELSE m.frame]
        ELSE [platform |-> dirname, frame |-> vt]

\* lines 226-254: firmware-version.txt is read, platform and frame are
\* inferred and the directory is listed
PlatformDirOpen ==
    /\ pc = "git_version" /\ cur.isdir
    /\ cur.git_version # None
    /\ git_sha_from_git_version(cur.git_version) # None
    /\ \E content \in FwVersionContents(tree) :
       \E firmware_files \in Listings(FileNames(tree), MaxVisits - Len(visits)) :
          LET fv == read_firmware_version(content)
              pf == platform_and_frame(cur.platformdir, call.vehicletype)
          IN  /\ cur' = [cur EXCEPT !.git_sha = git_sha_from_git_version(cur.git_version),
                                    !.fwv_content = content,
                                    !.firmware_version = fv.version,
                                    !.platform = pf.platform,
                                    !.frame = pf.frame]
              /\ stderr' = IF fv.log = "" THEN stderr ELSE Append(stderr, fv.log)
              /\ files' = <<S_git_version_txt>>
                          \o (IF content = None THEN <<>> ELSE <<S_firmware_version_txt>>)
                          \o firmware_files
    /\ pc' = "file"
    /\ UNCHANGED <<tree, nentries, vi, vdir, fl, call, dlist, xfirmwares, firmwares,
                   firmware_json, visits, ndirs>>

file == files[1]

some_dir == PathJoin(call.dir, cur.platformdir)

\* line 254: the loop over the files is exhausted
FilesDone ==
    /\ pc = "file" /\ files = <<>>
    /\ pc' = "platformdir"
    /\ dlist' = Tail(dlist)
    /\ cur' = NoCur
    /\ UNCHANGED <<tree, nentries, vi, vdir, fl, call, files, xfirmwares, firmwares,
                   firmware_json, stderr, visits, ndirs>>

\* lines 255-258
excluded(f) ==
    \/ f \in {S_git_version_txt, S_firmware_version_txt, S_files_html}
    \/ StartsWith(f, <<".">>)

FileExcluded ==
    /\ pc = "file" /\ files # <<>>
    /\ excluded(file)
    /\ files' = Tail(files)
    /\ UNCHANGED <<tree, nentries, pc, vi, vdir, fl, call, dlist, cur, xfirmwares, firmwares,
                   firmware_json, stderr, visits, ndirs>>

\* lines 260-316
FileVisit ==
    /\ pc = "file" /\ files # <<>>
    /\ ~excluded(file)
    /\ xfirmwares' = add_firmware(xfirmwares, call.vehicletype, call.releasetype, some_dir,
                                  cur.platform, cur.frame, cur.git_sha,
                                  cur.firmware_version, file)
    /\ visits' = Append(visits,
                    [filepath         |-> PathJoin(some_dir, file),
                     dir              |-> call.dir,
                     platformdir      |-> cur.platformdir,
                     file             |-> file,
                     releasetype      |-> call.releasetype,
                     fwv_content      |-> cur.fwv_content,
                     key              |-> <<call.vehicletype, file_platform_of(cur.platform, file),
                                            cur.git_sha, firmware_format(file), cur.frame>>])
    /\ files' = Tail(files)
    /\ UNCHANGED <<tree, nentries, pc, vi, vdir, fl, call, dlist, cur, firmwares,
                   firmware_json, stderr, ndirs>>

(***************************************************************************)
(* walk_directory, lines 396-437                                           *)
(***************************************************************************)
\* line 396
Flatten ==
    /\ pc = "vehicletype" /\ vi > Len(FIRMWARE_TYPES)
    /\ firmwares' = xfirmwares_to_firmwares(xfirmwares)
    /\ pc' = "project"
    /\ UNCHANGED <<tree, nentries, vi, vdir, fl, call, dlist, cur, files, xfirmwares,
                   firmware_json, stderr, visits, ndirs>>

\* os.path.exists on a path of the tree that was listed
exists(path) == \E i \in 1..Len(visits) : visits[i].filepath = path

\* lines 400-430: one record is projected; an exception of parse_fw_version
\* or of json.load ends the run
Project ==
    /\ pc = "project" /\ Len(firmware_json) < Len(firmwares)
    /\ LET firmware == firmwares[Len(firmware_json) + 1].atts
           v        == add_fw_version(some_json_of(firmware), firmware)
       IN  IF ~v.ok
           THEN /\ pc' = "aborted"
                /\ UNCHANGED <<firmware_json, stderr>>
           ELSE \E apj \in IF v.json["format"] = S_apj THEN ApjContents ELSE {CHOOSE a \in ApjContents : TRUE} :
                   LET u == add_USB_IDs(v.json, exists(apj_path_of(v.json)), apj)
                   IN  IF ~u.ok
                       THEN /\ pc' = "aborted"
                            /\ UNCHANGED <<firmware_json, stderr>>
                       ELSE /\ firmware_json' = Append(firmware_json, u.json)
                            /\ stderr' = IF u.log = "" THEN stderr ELSE Append(stderr, u.log)
                            /\ pc' = pc
    /\ UNCHANGED <<tree, nentries, vi, vdir, fl, call, dlist, cur, files, xfirmwares, firmwares,
                   visits, ndirs>>

\* lines 432-437: the manifest is returned
Return ==
    /\ pc = "project" /\ Len(firmware_json) = Len(firmwares)
    /\ pc' = "done"
    /\ UNCHANGED <<tree, nentries, vi, vdir, fl, call, dlist, cur, files, xfirmwares, firmwares,
                   firmware_json, stderr, visits, ndirs>>

(***************************************************************************)
(* A caller of the accumulator other than walk_directory                   *)
(***************************************************************************)
\* add_firmware_data_from_dir(dir, firmware_data, vehicletype, releasetype)
DirectCall ==
    /\ pc = "idle"
    /\ ndirs < MaxDirs
    /\ \E vt \in {S_Copter} :
       \E releasetype \in ReleaseTypeArgs :
          Enter(PathJoin(PathJoin(basedir, vt), releasetype), vt, releasetype, "idle")
    /\ UNCHANGED <<tree, nentries, vi, vdir, fl, cur, files, xfirmwares, firmwares,
                   firmware_json, stderr, visits>>

Accumulate ==
    \/ PlatformDirsDone
    \/ PlatformDirHidden
    \/ PlatformDirStat
    \/ PlatformDirNotDir
    \/ PlatformDirNoGitVersion
    \/ PlatformDirBadGitVersion
    \/ PlatformDirOpen
    \/ FilesDone
    \/ FileExcluded
    \/ FileVisit

Next ==
    \/ VehicleMissing
    \/ VehicleListError
    \/ VehicleListed
    \/ FirstLevelDone
    \/ FirstLevelGenerated
    \/ FirstLevelDated
    \/ FirstLevelUnknownTag
    \/ FirstLevelNotDir
    \/ FirstLevelTag
    \/ Accumulate
    \/ Flatten
    \/ Project
    \/ Return

Spec == Init /\ [][Next]_vars

NextAcc == DirectCall \/ Accumulate

SpecAcc == InitAcc /\ [][NextAcc]_vars

(***************************************************************************)
(* Vocabulary of the properties                                            *)
(***************************************************************************)
\* the (vehicle type, platform key, commit hash, format, frame) of a record
KeyOf(atts) ==
    <<atts["vehicletype"], atts["platform"], atts["git_sha"], atts["format"], atts["frame"]>>

\* the records accumulated so far
Records == xfirmwares_to_firmwares(xfirmwares)

VisitedKeys == {visits[i].key : i \in 1..Len(visits)}

VisitsOf(key) == {i \in 1..Len(visits) : visits[i].key = key}

LastVisitOf(key) == CHOOSE i \in VisitsOf(key) : \A j \in VisitsOf(key) : j <= i

RecordOf(key) ==
    Records[CHOOSE n \in 1..Len(Records) : KeyOf(Records[n].atts) = key].atts

\* firmware_json[n] is the projection of firmwares[n]
EntryIndex(key) == CHOOSE n \in 1..Len(firmwares) : KeyOf(firmwares[n].atts) = key

EntryOf(key) == firmware_json[EntryIndex(key)]

IsStableX(releasetype) == StartsWith(releasetype, <<"s","t","a","b","l","e","-">>)

(***************************************************************************)
(* C1: a tuple visited by add_firmware_data_from_dir first with            *)
(* releasetype "latest" and then with "stable" ends with latest = 1 and    *)
(* the path of the file under "latest".                                    *)
(***************************************************************************)
C1_LatestIsSticky ==
    \A i, j \in 1..Len(visits) :
        ( /\ i < j
          /\ visits[i].key = visits[j].key
          /\ VisitsOf(visits[i].key) = {i, j}
          /\ visits[i].releasetype = S_latest
          /\ visits[j].releasetype = S_stable )
        => /\ RecordOf(visits[i].key)["latest"] = 1
           /\ RecordOf(visits[i].key)["filepath"] = visits[i].filepath

(***************************************************************************)
(* C2: after a complete walk, every tuple that has a file in a "latest"    *)
(* directory has an entry with latest = 1 and the url of a file under      *)
(* "latest", whichever other release directories hold the tuple.           *)
(***************************************************************************)
C2_LatestWinsAfterWalk ==
    pc = "done" =>
        \A i \in 1..Len(visits) :
            visits[i].releasetype = S_latest =>
                /\ EntryOf(visits[i].key)["latest"] = 1
                /\ \E j \in VisitsOf(visits[i].key) :
                      /\ visits[j].releasetype = S_latest
                      /\ EntryOf(visits[i].key)["url"] = urlify(visits[j].filepath)

(***************************************************************************)
(* C3: after a complete walk, a tuple found in "stable" and in a           *)
(* "stable-x.y.z" directory and in no other release directory has release  *)
(* type "stable", projected as OFFICIAL, and the path of the file under    *)
(* "stable".                                                               *)
(***************************************************************************)
StableAndStableX(key) ==
    /\ \E i \in VisitsOf(key) : visits[i].releasetype = S_stable
    /\ \E i \in VisitsOf(key) : IsStableX(visits[i].releasetype)
    /\ \A i \in VisitsOf(key) : visits[i].releasetype = S_stable \/ IsStableX(visits[i].releasetype)

C3_StableWins ==
    \A key \in VisitedKeys :
        StableAndStableX(key) =>
            /\ pc \in {"project", "done", "aborted"} /\ firmwares # <<>> =>
                  /\ firmwares[EntryIndex(key)].atts["release-type"] = S_stable
                  /\ \E i \in VisitsOf(key) :
                        /\ visits[i].releasetype = S_stable
                        /\ firmwares[EntryIndex(key)].atts["filepath"] = visits[i].filepath
            /\ pc = "done" =>
                  /\ EntryOf(key)["mav-firmware-version-type"] = S_OFFICIAL
                  /\ \E i \in VisitsOf(key) :
                        /\ visits[i].releasetype = S_stable
                        /\ EntryOf(key)["url"] = urlify(visits[i].filepath)

C3_Witness ==
    /\ pc = "done"
    /\ \E key \in VisitedKeys :
          /\ StableAndStableX(key)
          /\ EntryOf(key)["mav-firmware-version-type"] = S_OFFICIAL

(***************************************************************************)
(* C4: at every point there is exactly one record per tuple visited, in    *)
(* the nested dicts and in the flattened list: a second visit of a tuple   *)
(* adds no record and no record is deleted.                                *)
(***************************************************************************)
OnePerKey(records) ==
    /\ Len(records) = Cardinality(VisitedKeys)
    /\ {KeyOf(records[n].atts) : n \in 1..Len(records)} = VisitedKeys

C4_OneRecordPerTuple ==
    /\ OnePerKey(Records)
    /\ pc \in {"project", "done"} => OnePerKey(firmwares)
    /\ pc = "done" => Len(firmware_json) = Cardinality(VisitedKeys)

C4_Witness ==
    /\ pc = "done"
    /\ Len(firmware_json) = 1
    /\ \E i, j \in 1..Len(visits) :
          /\ visits[i].key = visits[j].key
          /\ visits[i].dir # visits[j].dir

(***************************************************************************)
(* C5: two distinct firmware files of one release directory, in the same   *)
(* platform directory or in two platform directories of the same commit,   *)
(* never share a record, so that every file has its own manifest entry.    *)
(***************************************************************************)
C5_EveryFileHasItsEntry ==
    \A i, j \in 1..Len(visits) :
        ( /\ visits[i].dir = visits[j].dir
          /\ visits[i].filepath # visits[j].filepath )
        => visits[i].key # visits[j].key

(***************************************************************************)
(* C6: a platform directory without git-version.txt, or whose              *)
(* git-version.txt holds no "commit <hex>", adds and changes no record,    *)
(* prints one warning, and the loop goes on with the rest of the release   *)
(* directory.                                                              *)
(***************************************************************************)
C6_NoCommitNoRecord ==
    [][ ( /\ pc = "git_version"
          /\ cur.isdir
          /\ cur.git_version \in {None, S_gv_bad} )
        => ( /\ xfirmwares' = xfirmwares
             /\ visits' = visits
             /\ Len(stderr') = Len(stderr) + 1
             /\ stderr'[Len(stderr')] \in {"No file", "Failed to parse"}
             /\ pc' = "platformdir"
             /\ call' = call
             /\ dlist' = Tail(dlist) ) ]_vars

\* the first of the two platform directories of a release directory was
\* skipped with a warning and the files of the second one are visited
C6_Witness ==
    /\ pc = "file"
    /\ nentries = 1 /\ ndirs = 2 /\ Len(dlist) = 1
    /\ stderr \in {<<"No file">>, <<"Failed to parse">>}

(***************************************************************************)
(* C7: an entry of a vehicle type directory that is no release tag is       *)
(* skipped with a warning; the run is not aborted at that entry.            *)
(***************************************************************************)
C7_UnknownTagDoesNotAbort ==
    ~( /\ pc = "aborted"
       /\ vdir.bound
       /\ fl <= Len(vdir.list)
       /\ vdir.list[fl] = S_junk )

(***************************************************************************)
(* C8: a record whose firmware version is set but is not                   *)
(* <major>.<minor>.<patch>-<releasetype> is never projected: the run ends  *)
(* without a manifest.                                                     *)
(***************************************************************************)
WellShaped(version) ==
    LET parts == Split(version, "-")
    IN  Len(parts) = 2 /\ Len(Split(parts[1], ".")) = 3

VersionIsFine(firmware) ==
    \/ firmware.atts["firmware-version"] = None
    \/ WellShaped(firmware.atts["firmware-version"])

C8_MalformedVersionAborts ==
    /\ \A n \in 1..Len(firmware_json) : VersionIsFine(firmwares[n])
    /\ pc = "done" => \A n \in 1..Len(firmwares) : VersionIsFine(firmwares[n])

\* the run was aborted at a record that carries the accepted "3.6-beta"
C8_Witness ==
    /\ pc = "aborted"
    /\ Len(firmware_json) < Len(firmwares)
    /\ firmwares[Len(firmware_json) + 1].atts["firmware-version"] = S_v36beta

(***************************************************************************)
(* C9: the records of a platform directory whose firmware-version.txt is   *)
(* missing or does not split on "-" into two parts are still created or    *)
(* updated, with the firmware version unset, and their entries carry no    *)
(* version keys.                                                           *)
(***************************************************************************)
Unparseable(content) ==
    content = None \/ Len(Split(Strip(content), "-")) # 2

VersionKeys ==
    {"mav-firmware-version", "mav-firmware-version-major",
     "mav-firmware-version-minor", "mav-firmware-version-patch"}

\* as claimed: for every such directory, whatever is visited afterwards
C9_UnsetVersionNoKeys ==
    pc = "done" =>
        \A i \in 1..Len(visits) :
            Unparseable(visits[i].fwv_content) =>
                DOMAIN EntryOf(visits[i].key) \cap VersionKeys = {}

\* amended: for the tuples whose last visit came from such a directory; a
\* projection that fails does not fail at the unset version of a record
C9_LastVisitUnsetVersionNoKeys ==
    /\ \A key \in VisitedKeys :
          LET content == visits[LastVisitOf(key)].fwv_content
          IN  Unparseable(content) =>
                  /\ RecordOf(key)["firmware-version"] = None
                  /\ \E m \in 1..Len(stderr) :
                        stderr[m] = IF content = None THEN "bad file"
                                    ELSE "malformed firmware-version.txt"
                  /\ pc = "done" => DOMAIN EntryOf(key) \cap VersionKeys = {}
    /\ (pc = "aborted" /\ Len(firmware_json) < Len(firmwares)) =>
          LET firmware == firmwares[Len(firmware_json) + 1].atts
          IN  firmware["firmware-version"] # None \/ firmware["format"] = S_apj

C9_Witness ==
    /\ pc = "done"
    /\ \E key \in VisitedKeys :
          /\ Unparseable(visits[LastVisitOf(key)].fwv_content)
          /\ DOMAIN EntryOf(key) \cap VersionKeys = {}

(***************************************************************************)
(* C10: a file <name>-vN.px4 of a platform directory "PX4" gets the        *)
(* platform key "PX4-vN" and its entry the USB metadata of the table for   *)
(* vN; a .px4 file whose last dash-delimited token is not in the table     *)
(* gets no USB keys and is still emitted.                                  *)
(***************************************************************************)
LastOf(seq) == seq[Len(seq)]

\* the file is named <name>-vN.px4
IsVnPx4(f) ==
    LET parts == Split(f, "-")
        dots  == Split(LastOf(parts), ".")
    IN  /\ Len(parts) >= 2 /\ parts[1] # <<>>
        /\ Len(dots) = 2 /\ dots[2] = S_px4
        /\ Len(dots[1]) >= 2 /\ dots[1][1] = "v"
        /\ \A k \in 2..Len(dots[1]) : dots[1][k] \in Digits

\* the vN of <name>-vN.px4
VariantOf(f) == Split(LastOf(Split(f, "-")), ".")[1]

NameHasNoDash(f) == Len(Split(f, "-")) = 2

UsbKeys == {"USBID", "board_id", "bootloader_str"}

HasUsb(e, usbid, board_id) ==
    /\ UsbKeys \subseteq DOMAIN e
    /\ e["USBID"] = <<usbid>>
    /\ e["board_id"] = board_id

\* the table of the claim, for the entry of a file <name>-vN.px4
UsbTable(e, f) ==
    /\ VariantOf(f) = <<"v", "1">> => HasUsb(e, S_usb_0010, 5)
    /\ VariantOf(f) \in {<<"v", "2">>, <<"v", "3">>} => HasUsb(e, S_usb_0011, 9)
    /\ VariantOf(f) = <<"v", "4">> => HasUsb(e, S_usb_0012, 11)

InUsbTable(token) == token \in {S_v1_px4, S_v2_px4, S_v3_px4, S_v4_px4, S_v4pro_px4}

C10_Px4(named(_)) ==
    /\ \A i \in 1..Len(visits) :
          ( /\ visits[i].platformdir = S_PX4
            /\ IsVnPx4(visits[i].file)
            /\ named(visits[i].file) )
          => visits[i].key[2] = S_PX4 \o <<"-">> \o VariantOf(visits[i].file)
    /\ \A n \in 1..Len(firmware_json) :
          LET e    == firmware_json[n]
              path == Split(e["url"], "/")
              f    == LastOf(path)
          IN  /\ ( /\ Len(path) >= 2 /\ path[Len(path) - 1] = S_PX4
                   /\ IsVnPx4(f)
                   /\ named(f) ) => UsbTable(e, f)
              /\ ( /\ e["format"] = S_px4
                   /\ ~InUsbTable(LastOf(Split(e["url"], "-"))) ) => DOMAIN e \cap UsbKeys = {}
    /\ pc = "done" => Len(firmware_json) = Cardinality(VisitedKeys)

AnyName(f) == TRUE

\* as claimed: for every <name>
C10_Px4VariantAndUsb == C10_Px4(AnyName)

\* amended: for every <name> without a dash
C10_Px4VariantAndUsbNoDash == C10_Px4(NameHasNoDash)

C10_Witness ==
    /\ pc = "done"
    /\ \E n \in 1..Len(firmware_json) :
          /\ firmware_json[n]["platform"] = S_PX4_v1
          /\ LastOf(Split(firmware_json[n]["url"], "/")) = S_ArduCopter_v1_px4
          /\ HasUsb(firmware_json[n], S_usb_0010, 5)

(***************************************************************************)
(* C11: in add_firmware_data_from_dir the release type of a record is the  *)
(* releasetype of the last visit of its tuple by a channel other than      *)
(* "dev" and "latest", whatever "dev" or "latest" visits come after it     *)
(* ("dev" when no such channel visited it); "stable" followed by           *)
(* "stable-1.2.3" ends with "stable-1.2.3".                                *)
(***************************************************************************)
NamedVisitsOf(key) == {i \in VisitsOf(key) : visits[i].releasetype \notin {S_dev, S_latest}}

LastNamedVisitOf(key) == CHOOSE i \in NamedVisitsOf(key) : \A j \in NamedVisitsOf(key) : j <= i

C11_LastNamedChannelNames ==
    \A key \in VisitedKeys :
        RecordOf(key)["release-type"] =
            IF NamedVisitsOf(key) = {} THEN S_dev
            ELSE visits[LastNamedVisitOf(key)].releasetype

\* a tuple visited via "stable" and then via "stable-1.2.3"
C11_Witness ==
    \E i, j \in 1..Len(visits) :
        /\ i < j
        /\ visits[i].key = visits[j].key
        /\ visits[i].releasetype = S_stable
        /\ visits[j].releasetype = S_stable_1_2_3
        /\ RecordOf(visits[i].key)["release-type"] = S_stable_1_2_3

=============================================================================
